---- MODULE Spec2Model ----
(***************************************************************************)
(* Model of garmin_mcp_server.py: the login state machine shared by the    *)
(* startup path (init_api / main), the background login thread (login,    *)
(* get_mfa) and the tools served on the event loop (list_activities,       *)
(* enter_mfa_code).                                                        *)
(*                                                                         *)
(* Threads: "init_api" is the main thread until app.run(); "login" is the  *)
(* thread started at line 113; "tool" is the event loop.  Both tools are   *)
(* `async def` without any await, so the event loop runs one tool call at  *)
(* a time, to completion.  Every `with lock:` block is an acquire step     *)
(* followed by a body step that releases.                                  *)
(***************************************************************************)
EXTENDS Integers, Sequences, FiniteSets, TLC

\* ---------------------------------------------------------------- constants
LOGIN_STATE_SUCCESS == 0
LOGIN_STATE_MFA == 1
LOGIN_STATE_ERROR == 2
\* Python's None for the integer-valued globals and locals
NONE == -1
\* get_mfa's bound on the wait for a code, in seconds
MFA_TIMEOUT == 1800
\* enter_mfa_code's bound on the wait for a terminal login_state, in seconds
SUBMIT_TIMEOUT == 30

\* ------------------------------------------------------------------- bounds
\* number of tool calls served in one run
MaxCalls == 2
\* the clock stops advancing here
MaxTime == 3700

\* codes a caller may pass to enter_mfa_code (code: int); 0 is "000000"
Codes == {0, 123456, 654321}
\* amounts by which the clock advances between two steps
TickSizes == {SUBMIT_TIMEOUT, MFA_TIMEOUT}

\* ------------------------------------------------------------------- state
VARIABLES
    login_state,    \* global login_state: NONE, LOGIN_STATE_SUCCESS, LOGIN_STATE_ERROR
    need_mfa,       \* global need_mfa: "None", "True", "False"
    mfa_code,       \* global mfa_code: NONE or an int
    lock,           \* threading.Lock: "free" or the thread holding it
    mpc,            \* main thread: position in init_api / main
    silent,         \* outcome of garmin.login(tokenstore): "none","ok","expired","crash"
    ls,             \* main's ls (first component of init_api's return value)
    garmin_client,  \* main's garmin_client: "None" or "garmin"
    mfa_tool,       \* enter_mfa_code is registered on the app
    garmin_authed,  \* the Garmin object holds a logged-in session
    wpc,            \* login thread: position in login / get_mfa
    exc,            \* exception in flight in the login thread ("none" if none)
    start_time,     \* get_mfa's start_time
    consumed,       \* value returned by get_mfa (NONE until it returns)
    verdict,        \* provider's answer to the consumed code
    now,            \* time.time()
    cpc,            \* event loop: position in the running tool call
    ccode,          \* enter_mfa_code's argument
    cstart,         \* enter_mfa_code's start_time
    cinfo,          \* facts about the running call, kept for its record
    calls           \* records of the tool calls that have returned

vars == <<login_state, need_mfa, mfa_code, lock, mpc, silent, ls, garmin_client,
          mfa_tool, garmin_authed, wpc, exc, start_time, consumed, verdict, now,
          cpc, ccode, cstart, cinfo, calls>>

globals == <<login_state, need_mfa, mfa_code>>
mainVars == <<mpc, silent, ls, garmin_client, mfa_tool>>
workerVars == <<wpc, exc, start_time, consumed, verdict>>
toolVars == <<cpc, ccode, cstart, cinfo, calls>>

\* ------------------------------------------------------------ result strings
MSG_SUCCESS == "MFA code entered successfully."
MSG_FAILED == "Failed to complete login"
MSG_TIMED_OUT == "Timed out waiting for login to complete"
MSG_NO_ACTIVITIES == "No activities found."
MSG_ACTIVITIES == "Last n activities:"
MSG_ACTIVITIES_ERROR == "Error retrieving activities: "

\* ------------------------------------------------------------------ helpers
\* Python truthiness of mfa_code (`if mfa_code:`): None and 0 are falsy
Truthy(v) == v # NONE /\ v # 0

\* `time.time() - start_time > timeout`
Expired(t, start, timeout) == t - start > timeout

\* the except clause with GarthHTTPError left out
CaughtByLogin_NoGarth ==
    {"FileNotFoundError", "GarminConnectAuthenticationError", "HTTPError"}

\* the exception classes login()'s except clause names
CaughtByLogin ==
    {"FileNotFoundError", "GarthHTTPError", "GarminConnectAuthenticationError", "HTTPError"}

\* what the provider call garmin.login() can raise
ProviderErrors ==
    {"GarthHTTPError", "GarminConnectAuthenticationError", "HTTPError", "ConnectionError"}

\* what saving the tokens (garth.dump, open/write) can raise
PersistErrors == {"FileNotFoundError", "PermissionError"}

\* the provider accepts the code the user was sent
ProviderAccepts(code) == code = 123456

\* the poll loop without the test of need_mfa (lines 120-121 missing)
PollOutcome_IgnoresMfa(nm, st) ==
    IF st # NONE THEN (IF st # LOGIN_STATE_SUCCESS THEN "error" ELSE "success")
    ELSE "again"

\* the poll loop leaving at once when nothing is set yet
PollOutcome_Immediate(nm, st) ==
    IF nm = "True" THEN "mfa"
    ELSE IF st = LOGIN_STATE_ERROR THEN "error"
    ELSE "success"

\* the body of init_api's poll loop, lines 120-126
PollOutcome(nm, st) ==
    IF nm = "True" THEN "mfa"
    ELSE IF st # NONE THEN (IF st # LOGIN_STATE_SUCCESS THEN "error" ELSE "success")
    ELSE "again"

\* the test of line 246 inverted
SubmitResult_Inverted(st) == IF st = LOGIN_STATE_ERROR THEN MSG_SUCCESS ELSE MSG_FAILED

\* enter_mfa_code's result once login_state is set, lines 246-248
SubmitResult(st) == IF st = LOGIN_STATE_ERROR THEN MSG_FAILED ELSE MSG_SUCCESS

\* enter_mfa_code registered after the wrong return value
RegistersMfaTool_OnSuccess(l) == l = LOGIN_STATE_SUCCESS

\* enter_mfa_code registered whatever init_api returned
RegistersMfaTool_Always(l) == TRUE

\* main registers enter_mfa_code only after an MFA return, line 222
RegistersMfaTool(l) == l = LOGIN_STATE_MFA

\* the spec's AuthState, read off the program's variables
AuthState ==
    IF silent = "ok" \/ login_state = LOGIN_STATE_SUCCESS THEN "Authenticated"
    ELSE IF login_state = LOGIN_STATE_ERROR THEN "Failed"
    ELSE IF need_mfa = "True" THEN "AwaitingMFA"
    ELSE IF mpc = "start" THEN "Unauthenticated"
    ELSE "Pending"

NoCall == [tool |-> "none", outstanding |-> FALSE, auth |-> "none",
           mfa_before |-> NONE, mfa_after |-> NONE]

\* ---------------------------------------------------------------------- Init
Init ==
    /\ login_state = NONE
    /\ need_mfa = "None"
    /\ mfa_code = NONE
    /\ lock = "free"
    /\ mpc = "start"
    /\ silent = "none"
    /\ ls = NONE
    /\ garmin_client = "None"
    /\ mfa_tool = FALSE
    /\ garmin_authed = FALSE
    /\ wpc = "idle"
    /\ exc = "none"
    /\ start_time = 0
    /\ consumed = NONE
    /\ verdict = "none"
    /\ now = 0
    /\ cpc = "idle"
    /\ ccode = NONE
    /\ cstart = 0
    /\ cinfo = NoCall
    /\ calls = <<>>

\* ------------------------------------------------------- main thread: init_api
\* lines 53-68: init_api starts the token login
SilentLoginBegin ==
    /\ mpc = "start"
    /\ mpc' = "token_login"
    /\ UNCHANGED <<globals, lock, silent, ls, garmin_client, mfa_tool, garmin_authed,
                   workerVars, now, toolVars>>

\* lines 67-68 succeed; line 128 returns LOGIN_STATE_SUCCESS, garmin
SilentLoginOk ==
    /\ mpc = "token_login"
    /\ silent' = "ok"
    /\ garmin_authed' = TRUE
    /\ ls' = LOGIN_STATE_SUCCESS
    /\ garmin_client' = "garmin"
    /\ mpc' = "main"
    /\ UNCHANGED <<globals, lock, mfa_tool, workerVars, now, toolVars>>

\* lines 68-114: the token login raises one of the three caught classes;
\* a Garmin with credentials is built and the login thread is started
SilentLoginExpired ==
    /\ mpc = "token_login"
    /\ silent' = "expired"
    /\ wpc' = "login"
    /\ mpc' = "poll"
    /\ UNCHANGED <<globals, lock, ls, garmin_client, mfa_tool, garmin_authed,
                   exc, start_time, consumed, verdict, now, toolVars>>

\* line 68 raises something else: it leaves init_api and main
SilentLoginCrash ==
    /\ mpc = "token_login"
    /\ silent' = "crash"
    /\ mpc' = "crashed"
    /\ UNCHANGED <<globals, lock, ls, garmin_client, mfa_tool, garmin_authed,
                   workerVars, now, toolVars>>

\* line 119
InitPollAcquire ==
    /\ mpc = "poll"
    /\ lock = "free"
    /\ lock' = "init_api"
    /\ mpc' = "poll_cs"
    /\ UNCHANGED <<globals, silent, ls, garmin_client, mfa_tool, garmin_authed,
                   workerVars, now, toolVars>>

\* lines 120-128
InitPollBody ==
    /\ mpc = "poll_cs"
    /\ lock' = "free"
    /\ LET o == PollOutcome(need_mfa, login_state) IN
        /\ mpc' = IF o = "again" THEN "poll" ELSE "main"
        /\ ls' = CASE o = "mfa" -> LOGIN_STATE_MFA
                   [] o = "error" -> LOGIN_STATE_ERROR
                   [] o = "success" -> LOGIN_STATE_SUCCESS
                   [] OTHER -> ls
        /\ garmin_client' = IF o \in {"mfa", "success"} THEN "garmin" ELSE garmin_client
    /\ UNCHANGED <<globals, silent, mfa_tool, garmin_authed, workerVars, now, toolVars>>

\* lines 159-161
MainExit ==
    /\ mpc = "main"
    /\ ls = LOGIN_STATE_ERROR
    /\ mpc' = "exited"
    /\ UNCHANGED <<globals, lock, silent, ls, garmin_client, mfa_tool, garmin_authed,
                   workerVars, now, toolVars>>

\* lines 163-251: configure the modules, register the tools, app.run()
MainServe ==
    /\ mpc = "main"
    /\ ls # LOGIN_STATE_ERROR
    /\ mfa_tool' = RegistersMfaTool(ls)
    /\ mpc' = "serving"
    /\ UNCHANGED <<globals, lock, silent, ls, garmin_client, garmin_authed,
                   workerVars, now, toolVars>>

\* ------------------------------------------------------- login thread: login
\* line 85, up to the provider's first answer
LoginHandshake ==
    /\ wpc = "login"
    /\ \/ /\ garmin_authed' = TRUE
          /\ wpc' = "dump"
          /\ exc' = exc
       \/ /\ wpc' = "mfa_acq"
          /\ UNCHANGED <<garmin_authed, exc>>
       \/ \E e \in ProviderErrors :
            /\ exc' = e
            /\ wpc' = "except"
            /\ garmin_authed' = garmin_authed
    /\ UNCHANGED <<globals, lock, mainVars, start_time, consumed, verdict, now, toolVars>>

\* line 137
GetMfaAcquire ==
    /\ wpc = "mfa_acq"
    /\ lock = "free"
    /\ lock' = "login"
    /\ wpc' = "mfa_set"
    /\ UNCHANGED <<globals, mainVars, garmin_authed, exc, start_time, consumed,
                   verdict, now, toolVars>>

\* lines 138-142
GetMfaSet ==
    /\ wpc = "mfa_set"
    /\ need_mfa' = "True"
    /\ lock' = "free"
    /\ start_time' = now
    /\ wpc' = "mfa_poll"
    /\ UNCHANGED <<login_state, mfa_code, mainVars, garmin_authed, exc, consumed,
                   verdict, now, toolVars>>

\* lines 144-145
GetMfaPollAcquire ==
    /\ wpc = "mfa_poll"
    /\ lock = "free"
    /\ lock' = "login"
    /\ wpc' = "mfa_cs"
    /\ UNCHANGED <<globals, mainVars, garmin_authed, exc, start_time, consumed,
                   verdict, now, toolVars>>

\* the code taken without clearing need_mfa (line 149 missing)
GetMfaPollBody_KeepsFlag ==
    /\ wpc = "mfa_cs"
    /\ lock' = "free"
    /\ IF Truthy(mfa_code)
       THEN /\ consumed' = mfa_code
            /\ mfa_code' = NONE
            /\ need_mfa' = need_mfa
            /\ wpc' = "mfa_verify"
       ELSE /\ wpc' = "mfa_timeout"
            /\ UNCHANGED <<consumed, mfa_code, need_mfa>>
    /\ UNCHANGED <<login_state, mainVars, garmin_authed, exc, start_time, verdict,
                   now, toolVars>>

\* the sleep and the clock test moved inside the with-block: when no code is
\* there, the lock is kept while get_mfa goes on waiting
GetMfaPollBody_KeepsLock ==
    /\ wpc = "mfa_cs"
    /\ IF Truthy(mfa_code)
       THEN /\ consumed' = mfa_code
            /\ mfa_code' = NONE
            /\ need_mfa' = "False"
            /\ wpc' = "mfa_verify"
            /\ lock' = "free"
       ELSE /\ wpc' = "mfa_timeout"
            /\ UNCHANGED <<consumed, mfa_code, need_mfa, lock>>
    /\ UNCHANGED <<login_state, mainVars, garmin_authed, exc, start_time, verdict,
                   now, toolVars>>

\* lines 146-150
GetMfaPollBody ==
    /\ wpc = "mfa_cs"
    /\ lock' = "free"
    /\ IF Truthy(mfa_code)
       THEN /\ consumed' = mfa_code
            /\ mfa_code' = NONE
            /\ need_mfa' = "False"
            /\ wpc' = "mfa_verify"
       ELSE /\ wpc' = "mfa_timeout"
            /\ UNCHANGED <<consumed, mfa_code, need_mfa>>
    /\ UNCHANGED <<login_state, mainVars, garmin_authed, exc, start_time, verdict,
                   now, toolVars>>

\* lines 151-152
GetMfaTimeoutCheck ==
    /\ wpc = "mfa_timeout"
    /\ IF Expired(now, start_time, MFA_TIMEOUT)
       THEN /\ exc' = "TimeoutError"
            /\ wpc' = "except"
       ELSE /\ wpc' = "mfa_poll"
            /\ exc' = exc
    /\ UNCHANGED <<globals, lock, mainVars, garmin_authed, start_time, consumed,
                   verdict, now, toolVars>>

\* line 85, after get_mfa returned: the provider checks the code
MfaVerify ==
    /\ wpc = "mfa_verify"
    /\ \/ /\ ProviderAccepts(consumed)
          /\ verdict' = "accepted"
          /\ garmin_authed' = TRUE
          /\ wpc' = "dump"
          /\ exc' = exc
       \/ /\ ~ProviderAccepts(consumed)
          /\ verdict' = "rejected"
          /\ exc' \in {"GarthHTTPError", "GarminConnectAuthenticationError"}
          /\ wpc' = "except"
          /\ garmin_authed' = garmin_authed
       \/ /\ verdict' = "transport"
          /\ exc' \in {"HTTPError", "ConnectionError"}
          /\ wpc' = "except"
          /\ garmin_authed' = garmin_authed
    /\ UNCHANGED <<globals, lock, mainVars, start_time, consumed, now, toolVars>>

\* lines 88-99
DumpTokens ==
    /\ wpc = "dump"
    /\ \/ /\ wpc' = "success_acq"
          /\ exc' = exc
       \/ \E e \in PersistErrors :
            /\ exc' = e
            /\ wpc' = "except"
    /\ UNCHANGED <<globals, lock, mainVars, garmin_authed, start_time, consumed,
                   verdict, now, toolVars>>

\* line 101
SetSuccessAcquire ==
    /\ wpc = "success_acq"
    /\ lock = "free"
    /\ lock' = "login"
    /\ wpc' = "success_cs"
    /\ UNCHANGED <<globals, mainVars, garmin_authed, exc, start_time, consumed,
                   verdict, now, toolVars>>

\* line 102
SetSuccessBody ==
    /\ wpc = "success_cs"
    /\ login_state' = LOGIN_STATE_SUCCESS
    /\ lock' = "free"
    /\ wpc' = "done"
    /\ UNCHANGED <<need_mfa, mfa_code, mainVars, garmin_authed, exc, start_time,
                   consumed, verdict, now, toolVars>>

\* lines 103-109: the except clause takes the exception or the thread ends on it
LoginExcept ==
    /\ wpc = "except"
    /\ wpc' = IF exc \in CaughtByLogin THEN "error_acq" ELSE "died"
    /\ UNCHANGED <<globals, lock, mainVars, garmin_authed, exc, start_time, consumed,
                   verdict, now, toolVars>>

\* line 110
SetErrorAcquire ==
    /\ wpc = "error_acq"
    /\ lock = "free"
    /\ lock' = "login"
    /\ wpc' = "error_cs"
    /\ UNCHANGED <<globals, mainVars, garmin_authed, exc, start_time, consumed,
                   verdict, now, toolVars>>

\* line 111
SetErrorBody ==
    /\ wpc = "error_cs"
    /\ login_state' = LOGIN_STATE_ERROR
    /\ lock' = "free"
    /\ wpc' = "done"
    /\ UNCHANGED <<need_mfa, mfa_code, mainVars, garmin_authed, exc, start_time,
                   consumed, verdict, now, toolVars>>

\* --------------------------------------------------- event loop: the tools
\* a tool call can start: app.run() is serving and the loop is not inside a call
LoopFree == mpc = "serving" /\ cpc = "idle" /\ Len(calls) < MaxCalls

\* record of a list_activities call: lines 200-220.  get_activities is invoked
\* on garmin_client whatever the login state; a client without a session raises,
\* one with a session returns records or raises a provider error
ListActivitiesRecord(res) ==
    [tool |-> "list_activities", code |-> NONE, result |-> res,
     outstanding |-> need_mfa = "True", auth |-> AuthState,
     touched |-> garmin_client # "None",
     mfa_before |-> mfa_code, mfa_after |-> mfa_code, mfa_at_return |-> mfa_code]

\* a provider error in the tool also marking the login as failed
ListActivities_FailsLogin ==
    /\ LoopFree
    /\ \E res \in {MSG_NO_ACTIVITIES, MSG_ACTIVITIES, MSG_ACTIVITIES_ERROR} :
        /\ (res # MSG_ACTIVITIES_ERROR) => (garmin_client # "None" /\ garmin_authed)
        /\ calls' = Append(calls, ListActivitiesRecord(res))
        /\ login_state' = IF res = MSG_ACTIVITIES_ERROR THEN LOGIN_STATE_ERROR ELSE login_state
    /\ UNCHANGED <<need_mfa, mfa_code, lock, mainVars, garmin_authed, workerVars, now,
                   cpc, ccode, cstart, cinfo>>

ListActivities ==
    /\ LoopFree
    /\ \E res \in {MSG_NO_ACTIVITIES, MSG_ACTIVITIES, MSG_ACTIVITIES_ERROR} :
        /\ (res # MSG_ACTIVITIES_ERROR) => (garmin_client # "None" /\ garmin_authed)
        /\ calls' = Append(calls, ListActivitiesRecord(res))
    /\ UNCHANGED <<globals, lock, mainVars, garmin_authed, workerVars, now,
                   cpc, ccode, cstart, cinfo>>

\* line 225: enter_mfa_code(code) is called; it exists only if it was registered
EnterMfaCall ==
    /\ LoopFree
    /\ mfa_tool
    /\ \E code \in Codes : ccode' = code
    /\ cpc' = "deposit_acq"
    /\ cinfo' = [NoCall EXCEPT !.tool = "enter_mfa_code", !.auth = AuthState]
    /\ UNCHANGED <<globals, lock, mainVars, garmin_authed, workerVars, now, cstart, calls>>

\* line 236
EnterMfaDepositAcquire ==
    /\ cpc = "deposit_acq"
    /\ lock = "free"
    /\ lock' = "tool"
    /\ cpc' = "deposit_cs"
    /\ UNCHANGED <<globals, mainVars, garmin_authed, workerVars, now, ccode, cstart,
                   cinfo, calls>>

\* the deposit also clearing login_state (it is declared global at line 226)
EnterMfaDeposit_ResetsState ==
    /\ cpc = "deposit_cs"
    /\ mfa_code' = ccode
    /\ login_state' = NONE
    /\ lock' = "free"
    /\ cstart' = now
    /\ cinfo' = [cinfo EXCEPT !.outstanding = (need_mfa = "True"),
                              !.mfa_before = mfa_code, !.mfa_after = ccode]
    /\ cpc' = "wait"
    /\ UNCHANGED <<need_mfa, mainVars, garmin_authed, workerVars, now, ccode, calls>>

\* lines 237-238: the code is stored whatever need_mfa is
EnterMfaDeposit ==
    /\ cpc = "deposit_cs"
    /\ mfa_code' = ccode
    /\ lock' = "free"
    /\ cstart' = now
    /\ cinfo' = [cinfo EXCEPT !.outstanding = (need_mfa = "True"),
                              !.mfa_before = mfa_code, !.mfa_after = ccode]
    /\ cpc' = "wait"
    /\ UNCHANGED <<login_state, need_mfa, mainVars, garmin_authed, workerVars, now,
                   ccode, calls>>

\* lines 240-241
EnterMfaWaitAcquire ==
    /\ cpc = "wait"
    /\ lock = "free"
    /\ lock' = "tool"
    /\ cpc' = "wait_cs"
    /\ UNCHANGED <<globals, mainVars, garmin_authed, workerVars, now, ccode, cstart,
                   cinfo, calls>>

\* lines 242-243
EnterMfaWaitBody ==
    /\ cpc = "wait_cs"
    /\ lock' = "free"
    /\ cpc' = IF login_state # NONE THEN "result" ELSE "wait_timeout"
    /\ UNCHANGED <<globals, mainVars, garmin_authed, workerVars, now, ccode, cstart,
                   cinfo, calls>>

EnterMfaRecord(res) ==
    [tool |-> "enter_mfa_code", code |-> ccode, result |-> res,
     outstanding |-> cinfo.outstanding, auth |-> cinfo.auth, touched |-> FALSE,
     mfa_before |-> cinfo.mfa_before, mfa_after |-> cinfo.mfa_after,
     mfa_at_return |-> mfa_code]

\* the expiry of the wait also marking the login as failed
EnterMfaTimeoutCheck_FailsLogin ==
    /\ cpc = "wait_timeout"
    /\ IF Expired(now, cstart, SUBMIT_TIMEOUT)
       THEN /\ calls' = Append(calls, EnterMfaRecord(MSG_TIMED_OUT))
            /\ cpc' = "idle"
            /\ ccode' = NONE
            /\ cinfo' = NoCall
            /\ login_state' = LOGIN_STATE_ERROR
       ELSE /\ cpc' = "wait"
            /\ UNCHANGED <<calls, ccode, cinfo, login_state>>
    /\ UNCHANGED <<need_mfa, mfa_code, lock, mainVars, garmin_authed, workerVars, now, cstart>>

\* lines 244-245
EnterMfaTimeoutCheck ==
    /\ cpc = "wait_timeout"
    /\ IF Expired(now, cstart, SUBMIT_TIMEOUT)
       THEN /\ calls' = Append(calls, EnterMfaRecord(MSG_TIMED_OUT))
            /\ cpc' = "idle"
            /\ ccode' = NONE
            /\ cinfo' = NoCall
       ELSE /\ cpc' = "wait"
            /\ UNCHANGED <<calls, ccode, cinfo>>
    /\ UNCHANGED <<globals, lock, mainVars, garmin_authed, workerVars, now, cstart>>

\* lines 246-248
EnterMfaReturn ==
    /\ cpc = "result"
    /\ calls' = Append(calls, EnterMfaRecord(SubmitResult(login_state)))
    /\ cpc' = "idle"
    /\ ccode' = NONE
    /\ cinfo' = NoCall
    /\ UNCHANGED <<globals, lock, mainVars, garmin_authed, workerVars, now, cstart>>

\* -------------------------------------------------------------------- time
WorkerWaiting == wpc \in {"mfa_poll", "mfa_cs", "mfa_timeout"}
CallWaiting == cpc \in {"wait", "wait_cs", "wait_timeout"}

\* time passes (time.sleep and everything else that takes time).  The clock is
\* followed only while a wait that reads it has not yet expired: by the length
\* of enter_mfa_code's wait while a call waits, by the length of get_mfa's wait
\* while the login thread waits
Tick ==
    /\ \E d \in TickSizes :
        /\ \/ d = MFA_TIMEOUT /\ WorkerWaiting /\ ~Expired(now, start_time, MFA_TIMEOUT)
           \/ d = SUBMIT_TIMEOUT /\ CallWaiting /\ ~Expired(now, cstart, SUBMIT_TIMEOUT)
        /\ now + d <= MaxTime
        /\ now' = now + d
    /\ UNCHANGED <<globals, lock, mainVars, garmin_authed, workerVars, toolVars>>

\* ------------------------------------------------------------ specification
Next ==
    \/ SilentLoginBegin
    \/ SilentLoginOk
    \/ SilentLoginExpired
    \/ SilentLoginCrash
    \/ InitPollAcquire
    \/ InitPollBody
    \/ MainExit
    \/ MainServe
    \/ LoginHandshake
    \/ GetMfaAcquire
    \/ GetMfaSet
    \/ GetMfaPollAcquire
    \/ GetMfaPollBody
    \/ GetMfaTimeoutCheck
    \/ MfaVerify
    \/ DumpTokens
    \/ SetSuccessAcquire
    \/ SetSuccessBody
    \/ LoginExcept
    \/ SetErrorAcquire
    \/ SetErrorBody
    \/ ListActivities
    \/ EnterMfaCall
    \/ EnterMfaDepositAcquire
    \/ EnterMfaDeposit
    \/ EnterMfaWaitAcquire
    \/ EnterMfaWaitBody
    \/ EnterMfaTimeoutCheck
    \/ EnterMfaReturn
    \/ Tick

Spec == Init /\ [][Next]_vars

TypeOK ==
    /\ login_state \in {NONE, LOGIN_STATE_SUCCESS, LOGIN_STATE_ERROR}
    /\ need_mfa \in {"None", "True", "False"}
    /\ mfa_code \in Codes \cup {NONE}
    /\ lock \in {"free", "init_api", "login", "tool"}
    /\ ls \in {NONE, LOGIN_STATE_SUCCESS, LOGIN_STATE_MFA, LOGIN_STATE_ERROR}
    /\ garmin_client \in {"None", "garmin"}
    /\ now \in 0..MaxTime
    /\ Len(calls) <= MaxCalls

\* ------------------------------------------------------------------ claims
\* the rejection the MFA handoff contract names for a submit with no request
\* outstanding; enter_mfa_code has no such result
MSG_NO_REQUEST_PENDING == "NoRequestPending"

EnterCalls == {i \in 1..Len(calls) : calls[i].tool = "enter_mfa_code"}
ListCalls == {i \in 1..Len(calls) : calls[i].tool = "list_activities"}

\* C1: among the enter_mfa_code calls that deposited their code while need_mfa
\* was True, at most one returns the success message and every other one is
\* rejected as NoRequestPending.
C1_AtMostOneSubmitSucceeds ==
    LET S == {i \in EnterCalls : calls[i].outstanding} IN
    /\ Cardinality({i \in S : calls[i].result = MSG_SUCCESS}) <= 1
    /\ Cardinality({i \in S : calls[i].result # MSG_NO_REQUEST_PENDING}) <= 1

\* C2: when get_mfa raises its TimeoutError and the login thread has ended,
\* login_state is LOGIN_STATE_ERROR.
C2_MfaTimeoutFailsLogin ==
    (exc = "TimeoutError" /\ wpc \in {"done", "died"}) => login_state = LOGIN_STATE_ERROR

\* C3: once the state is Authenticated or Failed, no step changes the auth
\* state or login_state, and need_mfa is not True afterwards.
C3_AuthStateMonotonic ==
    [][(AuthState \in {"Authenticated", "Failed"}) =>
          (AuthState' = AuthState /\ login_state' = login_state /\ need_mfa' # "True")]_vars

\* C3 witness: a code was submitted after the login thread had already set
\* login_state, and the call returned.
C3_Witness ==
    /\ login_state # NONE
    /\ \E i \in EnterCalls : calls[i].auth \in {"Authenticated", "Failed"}

\* C4: a list_activities call made while the state is not Authenticated
\* returns the error string and invokes nothing on the client handle.
C4_ToolGate ==
    \A i \in ListCalls :
        calls[i].auth # "Authenticated" =>
            /\ ~calls[i].touched
            /\ calls[i].result = MSG_ACTIVITIES_ERROR

\* C5: an enter_mfa_code call that deposits while need_mfa is not True is
\* rejected as NoRequestPending and leaves mfa_code as it was.
C5_NoRequestPendingRejected ==
    \A i \in EnterCalls :
        ~calls[i].outstanding =>
            /\ calls[i].result = MSG_NO_REQUEST_PENDING
            /\ calls[i].mfa_after = calls[i].mfa_before

\* C6: while tools are served, garmin_client is set if and only if the state
\* is Authenticated.
C6_HandleIffAuthenticated ==
    mpc = "serving" => ((garmin_client # "None") <=> (AuthState = "Authenticated"))

\* C7: init_api returns LOGIN_STATE_MFA only with need_mfa True; the code
\* get_mfa returns is one a call deposited for the outstanding request; and when a
\* call deposited 123456 for the outstanding request, the login thread took
\* exactly that code, the provider accepted it, the tokens were saved and the
\* call saw login_state set, then login_state is LOGIN_STATE_SUCCESS, the
\* state is Authenticated and the call returned the success message.
C7_Scenario2 ==
    /\ (mpc = "main" /\ ls = LOGIN_STATE_MFA) =>
            (need_mfa = "True" /\ AuthState = "AwaitingMFA" /\ silent = "expired")
    /\ consumed # NONE =>
            \/ cinfo.tool = "enter_mfa_code" /\ cinfo.outstanding /\ cinfo.mfa_after = consumed
            \/ \E i \in EnterCalls : calls[i].outstanding /\ calls[i].code = consumed
    /\ \A i \in EnterCalls :
        (/\ calls[i].outstanding
         /\ calls[i].code = 123456
         /\ consumed = calls[i].code
         /\ verdict = "accepted"
         /\ exc = "none"
         /\ calls[i].result # MSG_TIMED_OUT) =>
            /\ calls[i].result = MSG_SUCCESS
            /\ login_state = LOGIN_STATE_SUCCESS
            /\ AuthState = "Authenticated"
            /\ need_mfa = "False"

\* C7 witness: the scenario has run to its end.
C7_Witness ==
    /\ ls = LOGIN_STATE_MFA
    /\ login_state = LOGIN_STATE_SUCCESS
    /\ \E i \in EnterCalls :
        /\ calls[i].outstanding
        /\ calls[i].auth = "AwaitingMFA"
        /\ calls[i].code = 123456
        /\ consumed = 123456
        /\ verdict = "accepted"
        /\ calls[i].result = MSG_SUCCESS

\* a call whose code the login thread took and the provider rejected
RejectedCalls ==
    {i \in EnterCalls : /\ calls[i].outstanding
                        /\ consumed = calls[i].code
                        /\ verdict = "rejected"}

\* C8 as stated: the submit of a rejected code, once it sees login_state set,
\* returns "Failed to complete login." and login_state is LOGIN_STATE_ERROR.
C8_RejectedCodeFailsWithFullStop ==
    \A i \in RejectedCalls :
        calls[i].result # MSG_TIMED_OUT =>
            /\ calls[i].result = "Failed to complete login."
            /\ login_state = LOGIN_STATE_ERROR

\* C8 amended: once the provider has rejected the code and the login thread has
\* ended, login_state is LOGIN_STATE_ERROR; the submit of that code never
\* returns the success message, and once it sees login_state set it returns
\* "Failed to complete login" (no full stop).
C8_RejectedCodeFails ==
    /\ (verdict = "rejected" /\ wpc \in {"done", "died"}) =>
            (login_state = LOGIN_STATE_ERROR /\ AuthState = "Failed")
    /\ \A i \in RejectedCalls :
        /\ calls[i].result # MSG_SUCCESS
        /\ calls[i].result # MSG_TIMED_OUT =>
            /\ calls[i].result = MSG_FAILED
            /\ login_state = LOGIN_STATE_ERROR

\* C8 witness: a wrong code was submitted while AwaitingMFA, rejected, and the
\* call returned the failure message.
C8_Witness ==
    /\ login_state = LOGIN_STATE_ERROR
    /\ \E i \in RejectedCalls :
        /\ calls[i].auth = "AwaitingMFA"
        /\ calls[i].result = MSG_FAILED

\* C9: after a successful token login init_api has returned
\* LOGIN_STATE_SUCCESS with the handle, the login thread was never started,
\* need_mfa was never set, enter_mfa_code is neither registered nor called;
\* and the step that completes the token login goes from Pending to
\* Authenticated.
C9_SilentLogin ==
    /\ [](silent = "ok" =>
            /\ ls = LOGIN_STATE_SUCCESS
            /\ garmin_client = "garmin"
            /\ AuthState = "Authenticated"
            /\ wpc = "idle"
            /\ need_mfa = "None"
            /\ mfa_code = NONE
            /\ ~mfa_tool
            /\ EnterCalls = {}
            /\ cpc = "idle")
    /\ [][(silent # "ok" /\ silent' = "ok") =>
            (AuthState = "Pending" /\ AuthState' = "Authenticated")]_vars

\* C9 witness: the server is serving after a token login and a data tool has
\* returned records.
C9_Witness ==
    /\ silent = "ok"
    /\ mpc = "serving"
    /\ \E i \in ListCalls : calls[i].result = MSG_ACTIVITIES

\* C10: whenever the login thread has ended on an exception, login_state is
\* LOGIN_STATE_ERROR.
C10_WorkerErrorSetsFailed ==
    (exc # "none" /\ wpc \in {"done", "died"}) => login_state = LOGIN_STATE_ERROR


\* C11: the step in which enter_mfa_code gives up its wait returns the
\* timed-out message and changes none of login_state, need_mfa, mfa_code, nor
\* anything of the login thread; the code it deposited stays where it was.
C11_SubmitTimeoutLeavesLogin ==
    [][(cpc = "wait_timeout" /\ cpc' = "idle") =>
          (/\ calls'[Len(calls')].result = MSG_TIMED_OUT
           /\ calls'[Len(calls')].mfa_at_return = mfa_code
           /\ login_state' = login_state
           /\ need_mfa' = need_mfa
           /\ mfa_code' = mfa_code
           /\ wpc' = wpc
           /\ lock' = lock)]_vars

\* C11 witness: a call timed out while its code 123456 was still in mfa_code;
\* the login thread took the code afterwards and the login succeeded.
C11_Witness ==
    /\ login_state = LOGIN_STATE_SUCCESS
    /\ consumed = 123456
    /\ \E i \in EnterCalls :
        /\ calls[i].outstanding
        /\ calls[i].result = MSG_TIMED_OUT
        /\ calls[i].code = 123456
        /\ calls[i].mfa_at_return = 123456


\* the steps of the main thread after the login thread was started
MainStep == InitPollAcquire \/ InitPollBody \/ MainExit \/ MainServe

\* the steps of a running enter_mfa_code call
EnterMfaStep ==
    \/ EnterMfaDepositAcquire
    \/ EnterMfaDeposit
    \/ EnterMfaWaitAcquire
    \/ EnterMfaWaitBody
    \/ EnterMfaTimeoutCheck
    \/ EnterMfaReturn

\* C12: while the login thread sleeps or reads the clock inside get_mfa it does
\* not hold the lock and the main thread is neither ended nor stuck: before
\* app.run() the main thread can take its next step; once the server runs,
\* enter_mfa_code is registered, a call of it can be started when the loop is
\* free, and a running call can take its next step.
C12_ForegroundNotBlocked ==
    wpc \in {"mfa_poll", "mfa_timeout"} =>
        /\ lock # "login"
        /\ mpc \in {"poll", "poll_cs", "main", "serving"}
        /\ mpc # "serving" => ENABLED MainStep
        /\ mpc = "serving" =>
            /\ mfa_tool
            /\ LoopFree => ENABLED EnterMfaCall
            /\ cpc # "idle" => ENABLED EnterMfaStep

\* C12 witness: the login thread is still waiting for a code after an
\* enter_mfa_code call was served, and another call is under way.
C12_Witness ==
    /\ wpc \in {"mfa_poll", "mfa_timeout"}
    /\ need_mfa = "True"
    /\ cpc = "wait"
    /\ \E i \in EnterCalls : calls[i].auth = "AwaitingMFA"


\* C13 as stated: init_api returns at once after starting the login thread,
\* that is, every pass of its poll loop returns.
C13_StartReturnsImmediately ==
    [][mpc = "poll_cs" => mpc' = "main"]_vars

\* C13 amended: the login thread is started at most once, by init_api after the
\* token login failed, and is never started again; init_api leaves its poll
\* loop only in a state where need_mfa is True or login_state is set, so after
\* an interactive login it has returned only once the handshake reached an MFA
\* request or its end.
C13_StartWaitsForHandshake ==
    /\ [][(wpc # "login" /\ wpc' = "login") => (wpc = "idle" /\ mpc = "token_login")]_vars
    /\ [][wpc # "idle" => wpc' # "idle"]_vars
    /\ [][(mpc \in {"poll", "poll_cs"} /\ mpc' = "main") =>
            (need_mfa = "True" \/ login_state # NONE)]_vars
    /\ []((silent = "expired" /\ mpc \in {"main", "serving", "exited"}) =>
            (need_mfa # "None" \/ login_state # NONE))

\* C13 witness: init_api has returned LOGIN_STATE_SUCCESS after an interactive
\* login, which it can do only after the login thread has finished.
C13_Witness ==
    /\ silent = "expired"
    /\ mpc = "main"
    /\ ls = LOGIN_STATE_SUCCESS
    /\ wpc = "done"


\* C14: the step in which get_mfa takes the code is taken under the lock, with
\* need_mfa True and login_state unset (state AwaitingMFA); it returns the
\* value of mfa_code and clears mfa_code and need_mfa in that same step.
C14_ConsumedOnlyWhileAwaiting ==
    [][(consumed' # consumed \/ (wpc = "mfa_cs" /\ wpc' = "mfa_verify")) =>
          (/\ wpc = "mfa_cs"
           /\ lock = "login"
           /\ need_mfa = "True"
           /\ login_state = NONE
           /\ AuthState = "AwaitingMFA"
           /\ consumed' = mfa_code
           /\ mfa_code' = NONE
           /\ need_mfa' = "False"
           /\ login_state' = NONE)]_vars

\* C14 witness: get_mfa has just returned a code.
C14_Witness ==
    /\ wpc = "mfa_verify"
    /\ consumed \in Codes
    /\ need_mfa = "False"
    /\ mfa_code = NONE


\* C15: mfa_code is None whenever no request is outstanding (need_mfa is not
\* True), and no deposit overwrites a code that is still waiting.
C15_CodeSingleUse ==
    /\ need_mfa # "True" => mfa_code = NONE
    /\ \A i \in EnterCalls : calls[i].mfa_before = NONE

\* the steps that end a with-lock block
LockRelease ==
    \/ InitPollBody
    \/ GetMfaSet
    \/ GetMfaPollBody
    \/ SetSuccessBody
    \/ SetErrorBody
    \/ EnterMfaDeposit
    \/ EnterMfaWaitBody

\* C16: a thread holds the lock exactly while it is inside one of its
\* with-lock blocks, which only read and write the three globals: never where
\* it sleeps, reads the clock, calls the provider or saves the tokens; and the
\* holder can always take the step that releases it.
C16_LockOnlyAroundStateAccess ==
    /\ lock = "login" <=> wpc \in {"mfa_set", "mfa_cs", "success_cs", "error_cs"}
    /\ lock = "init_api" <=> mpc = "poll_cs"
    /\ lock = "tool" <=> cpc \in {"deposit_cs", "wait_cs"}
    /\ wpc \in {"login", "mfa_poll", "mfa_timeout", "mfa_verify", "dump"} => lock # "login"
    /\ mpc \in {"token_login", "poll"} => lock # "init_api"
    /\ cpc \in {"wait", "wait_timeout"} => lock # "tool"
    /\ lock # "free" => ENABLED LockRelease

\* C16 witness: the login thread holds the lock inside get_mfa's poll while an
\* enter_mfa_code call is waiting to acquire it.
C16_Witness ==
    /\ lock = "login"
    /\ wpc = "mfa_cs"
    /\ cpc = "deposit_acq"


\* C17: the step that serves a list_activities call returns one of its three
\* result strings and changes none of login_state, need_mfa, mfa_code, the lock
\* or the login thread, whether the provider call succeeded or raised.
C17_DataErrorsAreLocal ==
    [][(Len(calls') = Len(calls) + 1 /\ calls'[Len(calls')].tool = "list_activities") =>
          (/\ calls'[Len(calls')].result \in
                  {MSG_NO_ACTIVITIES, MSG_ACTIVITIES, MSG_ACTIVITIES_ERROR}
           /\ login_state' = login_state
           /\ need_mfa' = need_mfa
           /\ mfa_code' = mfa_code
           /\ lock' = lock
           /\ wpc' = wpc
           /\ AuthState' = AuthState)]_vars

\* C17 witness: with the login done, one list_activities call returned
\* records and another one returned the provider's error.
C17_Witness ==
    /\ \E i \in ListCalls :
        calls[i].auth = "Authenticated" /\ calls[i].result = MSG_ACTIVITIES_ERROR
    /\ \E i \in ListCalls :
        calls[i].auth = "Authenticated" /\ calls[i].result = MSG_ACTIVITIES


\* C18: whenever get_mfa polls with a code in mfa_code, whatever its value, it
\* stops waiting and returns exactly that code.
C18_AnyCodeUnblocksWorker ==
    [][(wpc = "mfa_cs" /\ wpc' # wpc /\ mfa_code # NONE) =>
          (wpc' = "mfa_verify" /\ consumed' = mfa_code)]_vars

\* Scheduling: both threads are OS threads that keep running; a thread inside a
\* with-lock block leaves it, and the main thread, which sleeps 0.1 s between
\* two attempts while the other holders keep the lock only for a few
\* assignments, gets the lock again and again.
FairSpec ==
    /\ Spec
    /\ WF_vars(LockRelease)
    /\ WF_vars(MainExit \/ MainServe)
    /\ SF_vars(InitPollAcquire)

\* C19: once need_mfa has been set, init_api, when it has returned, has returned
\* LOGIN_STATE_MFA; until main has registered the tools need_mfa stays True
\* and no code is deposited; while the login thread waits and the server runs,
\* enter_mfa_code is registered; and from any state with need_mfa True the
\* main thread alone brings the server up with enter_mfa_code registered.
C19_MfaRequestNotMissed ==
    /\ []((need_mfa # "None" /\ mpc \in {"main", "serving", "exited"}) =>
            ls = LOGIN_STATE_MFA)
    /\ []((need_mfa # "None" /\ mpc \in {"poll", "poll_cs", "main"}) =>
            (need_mfa = "True" /\ mfa_code = NONE /\ cpc = "idle" /\ calls = <<>>))
    /\ []((WorkerWaiting /\ mpc = "serving") => mfa_tool)
    /\ (need_mfa = "True") ~> (mpc = "serving" /\ mfa_tool)

\* C19 witness: the login thread waits for a code, no call has been made yet,
\* and the server runs with enter_mfa_code registered.
C19_Witness ==
    /\ WorkerWaiting
    /\ need_mfa = "True"
    /\ mpc = "serving"
    /\ mfa_tool
    /\ calls = <<>>

\* C20: once the login thread has ended, however it ended, the next pass of
\* init_api's poll loop returns.
C20_StartupTerminates ==
    (wpc \in {"done", "died"} /\ mpc = "poll_cs") =>
        PollOutcome(need_mfa, login_state) # "again"

====
